---- MODULE Spec2Model ----
(***************************************************************************)
(* Model of src/util/pointer.h: Buffer<T> (exclusive, move-only array),    *)
(* SharedBuffer<T> (manually reference-counted array) and the heap they    *)
(* allocate from, and IntrusiveReferenceCounted (a counter inside the       *)
(* object, which deletes itself when the counter reaches zero).            *)
(*                                                                         *)
(* Pointers are heap addresses, 0 is nullptr.  The address of a freed      *)
(* object is handed out again only once no object points to it, so a       *)
(* dangling pointer is visible as a pointer to a "freed" object.           *)
(*                                                                         *)
(* A size_t is 64 bits wide and an unsigned int 32 bits wide.  A size_t    *)
(* value is kept as its two 32-bit words [hi, lo] (value hi * 2^32 + lo),  *)
(* so that the narrowing to unsigned int is exactly "keep the low word".   *)
(* Of an array only the first MaxLen elements are tracked.                 *)
(***************************************************************************)
EXTENDS Integers, Sequences, FiniteSets, TLC

\* ---- bounds ----
MaxLen == 2      \* largest low word of a requested size
MaxGrabs == 2    \* grab() calls made one at a time on one object

\* The objects of a program.  No operation involves more than two objects of a
\* class: a source and a destination.
BufIds == {1, 2}
SbIds == {1, 2}
IrcIds == {1, 2}
\* heap addresses: every object holds at most one array and one counter cell
ArrIds == 1..(Cardinality(BufIds) + Cardinality(SbIds))
CellIds == 1..Cardinality(SbIds)
Values == {0, 1}
HiWords == {0, 1}
Indices == 0..(MaxLen - 1)

\* ---- size_t and unsigned int ----
Size(h, l) == [hi |-> h, lo |-> l]
Zero == Size(0, 0)
Sizes == {Size(h, l) : h \in HiWords, l \in 0..MaxLen}
\* the sizes below 2^32
SmallSizes == {z \in Sizes : z.hi = 0}
\* a <= b on size_t
SizeLE(a, b) == a.hi < b.hi \/ (a.hi = b.hi /\ a.lo <= b.lo)
\* i < n for a small index i
IndexLT(i, n) == n.hi > 0 \/ i < n.lo
\* size_t -> unsigned int (value mod 2^32): the high word is lost
ToUInt(sz) == Size(0, sz.lo)
\* unsigned int -> size_t (getSize, promotion in a comparison): value kept
ToSizeT(u) == u
\* number of tracked elements of an array of n elements
TrackedLen(n) == IF n.hi > 0 THEN MaxLen ELSE n.lo
Contents(n) == [1..TrackedLen(n) -> Values]
Zeros(n) == [i \in 1..TrackedLen(n) |-> 0]
Prefix(s, n) == SubSeq(s, 1, TrackedLen(n))

\* u32 arithmetic on a counter; the word 2^32 - 1 is written -1
U32Inc(v) == IF v = -1 THEN 0 ELSE v + 1
U32Dec(v) == IF v = 0 THEN -1 ELSE v - 1

VARIABLES
  buffers,    \* Buffer objects:       [live, data, m_size]
  shared,     \* SharedBuffer objects: [live, data, m_size, refcount]
  arrays,     \* heap arrays:          [st, len, elems, frees]
  counters,   \* heap counter cells:   [st, val, frees]
  NDEBUG,     \* TRUE when assert() is compiled out
  failed,     \* an assert() has aborted the program
  last,       \* the operation just performed, its operands, the arrays it freed
  refs        \* IntrusiveReferenceCounted objects: [st, m_refcount, grabs, drops, deletes]

vars == <<buffers, shared, arrays, counters, NDEBUG, failed, last, refs>>

\* the memory of the program as one value
Cur == [buffers |-> buffers, shared |-> shared, arrays |-> arrays, counters |-> counters,
        NDEBUG |-> NDEBUG, failed |-> failed]

NoBuffer == [live |-> FALSE, data |-> 0, m_size |-> Zero]
NoShared == [live |-> FALSE, data |-> 0, m_size |-> Zero, refcount |-> 0]
NoArray == [st |-> "unalloc", len |-> Zero, elems |-> <<>>, frees |-> 0]
FreedArray(n) == [st |-> "freed", len |-> Zero, elems |-> <<>>, frees |-> n]
NoCell == [st |-> "unalloc", val |-> 0, frees |-> 0]
FreedCell(n) == [st |-> "freed", val |-> 0, frees |-> n]

\* assert(cond): aborts the program unless compiled out
c_assert(M, cond) == IF cond \/ M.NDEBUG THEN M ELSE [M EXCEPT !.failed = TRUE]

\* ---- the heap ----
CanNewArr(M) == \E a \in ArrIds : M.arrays[a].st = "unalloc"
CanNewCell(M) == \E c \in CellIds : M.counters[c].st = "unalloc"
NewArrId(M) == CHOOSE a \in ArrIds : /\ M.arrays[a].st = "unalloc"
                                     /\ \A b \in ArrIds : M.arrays[b].st = "unalloc" => a <= b
NewCellId(M) == CHOOSE c \in CellIds : /\ M.counters[c].st = "unalloc"
                                       /\ \A d \in CellIds : M.counters[d].st = "unalloc" => c <= d

\* new T[n] holding the tracked contents e
NewArr(M, n, e) ==
  [M EXCEPT !.arrays[NewArrId(M)] = [st |-> "live", len |-> n, elems |-> e, frees |-> 0]]
\* delete[] p
DeleteArr(M, p) ==
  IF p = 0 THEN M
  ELSE [M EXCEPT !.arrays[p] = FreedArray(@.frees + 1)]
\* new u32
NewCell(M) ==
  [M EXCEPT !.counters[NewCellId(M)] = [st |-> "live", val |-> 0, frees |-> 0]]
\* delete p
DeleteCell(M, p) ==
  IF p = 0 THEN M
  ELSE [M EXCEPT !.counters[p] = FreedCell(@.frees + 1)]
\* the tracked elements a memcpy of n elements reads at address p
SpanAt(M, p, n) == IF p = 0 \/ n = Zero THEN <<>> ELSE Prefix(M.arrays[p].elems, n)

\* ---- Buffer<T> ----
\* Buffer()
Buffer_default(M, b) ==
  [M EXCEPT !.buffers[b] = [live |-> TRUE, data |-> 0, m_size |-> Zero]]

\* faulty variant: an array is allocated for size 0 as well
Buffer_size_allocatesEmpty(M, b, size, junk) ==
  [NewArr(M, size, junk) EXCEPT !.buffers[b] = [live |-> TRUE, data |-> NewArrId(M), m_size |-> size]]

\* Buffer(size_t size); junk is what the uninitialised new T[size] holds
Buffer_size(M, b, size, junk) ==
  IF size # Zero
  THEN [NewArr(M, size, junk) EXCEPT !.buffers[b] = [live |-> TRUE, data |-> NewArrId(M), m_size |-> size]]
  ELSE [M EXCEPT !.buffers[b] = [live |-> TRUE, data |-> 0, m_size |-> Zero]]

\* faulty variant: the move constructor forgets to empty its source
Buffer_move_keepsSource(M, b, s) ==
  [M EXCEPT !.buffers[b] = [live |-> TRUE, data |-> M.buffers[s].data, m_size |-> M.buffers[s].m_size]]

\* Buffer(Buffer &&buffer), constructing b from s
Buffer_move(M, b, s) ==
  LET sz == M.buffers[s].m_size IN
  IF sz # Zero
  THEN [M EXCEPT !.buffers[b] = [live |-> TRUE, data |-> M.buffers[s].data, m_size |-> sz],
                 !.buffers[s] = [live |-> TRUE, data |-> 0, m_size |-> Zero]]
  ELSE [M EXCEPT !.buffers[b] = [live |-> TRUE, data |-> 0, m_size |-> sz]]

\* Buffer(const T *t, size_t size); t is the tracked prefix of the span
Buffer_span(M, b, t, size) ==
  IF size # Zero
  THEN [NewArr(M, size, Prefix(t, size)) EXCEPT
          !.buffers[b] = [live |-> TRUE, data |-> NewArrId(M), m_size |-> size]]
  ELSE [M EXCEPT !.buffers[b] = [live |-> TRUE, data |-> 0, m_size |-> Zero]]

\* Buffer::drop()
Buffer_drop(M, b) == DeleteArr(M, M.buffers[b].data)

\* ~Buffer()
Buffer_dtor(M, b) == [Buffer_drop(M, b) EXCEPT !.buffers[b] = NoBuffer]

\* faulty variant: the move assignment forgets to empty its source
Buffer_moveAssign_keepsSource(M, d, s) ==
  IF d = s THEN M
  ELSE LET M1 == Buffer_drop(M, d) IN
       [M1 EXCEPT !.buffers[d] = [live |-> TRUE, data |-> M1.buffers[s].data,
                                  m_size |-> M1.buffers[s].m_size]]

\* Buffer::operator=(Buffer &&buffer), d = std::move(s)
Buffer_moveAssign(M, d, s) ==
  IF d = s THEN M
  ELSE LET M1 == Buffer_drop(M, d)
           sz == M1.buffers[s].m_size
       IN IF sz # Zero
          THEN [M1 EXCEPT !.buffers[d] = [live |-> TRUE, data |-> M1.buffers[s].data, m_size |-> sz],
                          !.buffers[s] = [live |-> TRUE, data |-> 0, m_size |-> Zero]]
          ELSE [M1 EXCEPT !.buffers[d] = [live |-> TRUE, data |-> 0, m_size |-> sz]]

\* faulty variant: the destination's previous array is not freed
Buffer_copyTo_leaksOld(M, s, d, junk) ==
  LET M2 == [M EXCEPT !.buffers[d].m_size = M.buffers[s].m_size]
      sz == M2.buffers[s].m_size
  IN IF sz # Zero
     THEN LET a == NewArrId(M2)
              M3 == [NewArr(M2, sz, junk) EXCEPT !.buffers[d].data = a]
              src == M3.buffers[s].data
          IN [M3 EXCEPT !.arrays[a].elems = SpanAt(M3, src, sz)]
     ELSE [M2 EXCEPT !.buffers[d].data = 0]

\* Buffer::copyTo(Buffer &buffer) const, s.copyTo(d).  With d = s the memcpy
\* source is the array just allocated, whose contents are the junk.
Buffer_copyTo(M, s, d, junk) ==
  LET M1 == Buffer_drop(M, d)
      M2 == [M1 EXCEPT !.buffers[d].m_size = M1.buffers[s].m_size]
      sz == M2.buffers[s].m_size
  IN IF sz # Zero
     THEN LET a == NewArrId(M2)
              M3 == [NewArr(M2, sz, junk) EXCEPT !.buffers[d].data = a]
              src == M3.buffers[s].data
          IN [M3 EXCEPT !.arrays[a].elems = SpanAt(M3, src, sz)]
     ELSE [M2 EXCEPT !.buffers[d].data = 0]

\* Buffer::operator[](i) = v
Buffer_write(M, b, i, v) ==
  [M EXCEPT !.arrays[M.buffers[b].data].elems[i + 1] = v]

\* faulty variant: the size is set without the test that follows the assert
Buffer_shrinkSize_unguarded(M, b, new_size) ==
  LET M1 == c_assert(M, SizeLE(new_size, M.buffers[b].m_size)) IN
  IF M1.failed THEN M1
  ELSE [M1 EXCEPT !.buffers[b].m_size = new_size]

\* Buffer::shrinkSize(new_size)
Buffer_shrinkSize(M, b, new_size) ==
  LET M1 == c_assert(M, SizeLE(new_size, M.buffers[b].m_size)) IN
  IF M1.failed THEN M1
  ELSE IF SizeLE(new_size, M1.buffers[b].m_size)
       THEN [M1 EXCEPT !.buffers[b].m_size = new_size]
       ELSE M1

\* ---- SharedBuffer<T> ----
\* the default member initialisers: data = nullptr, m_size = 0, refcount = nullptr
SharedBuffer_members == [live |-> TRUE, data |-> 0, m_size |-> Zero, refcount |-> 0]

\* SharedBuffer()
SharedBuffer_default(M, s) ==
  [M EXCEPT !.shared[s] = [live |-> TRUE, data |-> 0, m_size |-> Zero, refcount |-> 0]]

\* faulty variant: the test for emptiness reads the size_t argument, not the narrowed m_size
SharedBuffer_size_testsArgument(M, s, size) ==
  LET sz == ToUInt(size) IN
  IF size # Zero
  THEN LET a == NewArrId(M)
           c == NewCellId(M)
           M1 == NewCell(NewArr(M, ToSizeT(sz), Zeros(sz)))
       IN [M1 EXCEPT !.counters[c].val = 1,
                     !.shared[s] = [live |-> TRUE, data |-> a, m_size |-> sz, refcount |-> c]]
  ELSE [M EXCEPT !.shared[s] = [SharedBuffer_members EXCEPT !.m_size = sz]]

\* SharedBuffer(size_t size)
SharedBuffer_size(M, s, size) ==
  LET sz == ToUInt(size) IN
  IF sz # Zero
  THEN LET a == NewArrId(M)
           c == NewCellId(M)
           M1 == NewCell(NewArr(M, ToSizeT(sz), Zeros(sz)))
       IN [M1 EXCEPT !.counters[c].val = 1,
                     !.shared[s] = [live |-> TRUE, data |-> a, m_size |-> sz, refcount |-> c]]
  ELSE [M EXCEPT !.shared[s] = [SharedBuffer_members EXCEPT !.m_size = sz]]

\* faulty variant: the copy constructor forgets to count its new holder
SharedBuffer_copy_noIncrement(M, d, s) ==
  [M EXCEPT !.shared[d] = [live |-> TRUE, data |-> M.shared[s].data,
                           m_size |-> M.shared[s].m_size, refcount |-> M.shared[s].refcount]]

\* SharedBuffer(const SharedBuffer &buffer), constructing d from s.  The assert
\* reads the members of the object under construction.
SharedBuffer_copy(M, d, s) ==
  LET self == SharedBuffer_members
      M1 == c_assert(M, self.refcount # 0 \/ (self.m_size = Zero /\ self.data = 0))
  IN IF M1.failed THEN M1
     ELSE LET rc == M1.shared[s].refcount
              M2 == [M1 EXCEPT !.shared[d] = [live |-> TRUE, data |-> M1.shared[s].data,
                                              m_size |-> M1.shared[s].m_size, refcount |-> rc]]
          IN IF rc # 0 THEN [M2 EXCEPT !.counters[rc].val = U32Inc(@)] ELSE M2

\* faulty variant: the move constructor leaves its source untouched
SharedBuffer_move_keepsSource(M, d, s) ==
  [M EXCEPT !.shared[d] = [live |-> TRUE, data |-> M.shared[s].data,
                           m_size |-> M.shared[s].m_size, refcount |-> M.shared[s].refcount]]

\* SharedBuffer(SharedBuffer &&buffer), constructing d from s
SharedBuffer_move(M, d, s) ==
  [M EXCEPT !.shared[d] = [live |-> TRUE, data |-> M.shared[s].data,
                           m_size |-> M.shared[s].m_size, refcount |-> M.shared[s].refcount],
            !.shared[s] = [live |-> TRUE, data |-> 0, m_size |-> Zero, refcount |-> 0]]

\* faulty variant: at zero the array is freed and the counter cell forgotten
SharedBuffer_drop_leaksCell(M, s) ==
  LET rc == M.shared[s].refcount IN
  IF rc = 0 THEN M
  ELSE LET M2 == [M EXCEPT !.counters[rc].val = U32Dec(@)] IN
       IF M2.counters[rc].val = 0 THEN DeleteArr(M2, M2.shared[s].data) ELSE M2

\* SharedBuffer::drop()
SharedBuffer_drop(M, s) ==
  LET rc == M.shared[s].refcount IN
  IF rc = 0 THEN M
  ELSE LET M1 == c_assert(M, M.counters[rc].val # 0) IN
       IF M1.failed THEN M1
       ELSE LET M2 == [M1 EXCEPT !.counters[rc].val = U32Dec(@)] IN
            IF M2.counters[rc].val = 0
            THEN DeleteCell(DeleteArr(M2, M2.shared[s].data), rc)
            ELSE M2

\* faulty variant: no test for assignment to itself
SharedBuffer_assign_noSelfTest(M, d, s) ==
  LET M1 == SharedBuffer_drop(M, d) IN
  IF M1.failed THEN M1
  ELSE LET rc == M1.shared[s].refcount
           M2 == [M1 EXCEPT !.shared[d] = [live |-> TRUE, data |-> M1.shared[s].data,
                                           m_size |-> M1.shared[s].m_size, refcount |-> rc]]
       IN IF rc # 0 THEN [M2 EXCEPT !.counters[rc].val = U32Inc(@)] ELSE M2

\* faulty variant: the assignment forgets to count its new holder
SharedBuffer_assign_noIncrement(M, d, s) ==
  IF d = s THEN M
  ELSE LET M1 == SharedBuffer_drop(M, d) IN
       IF M1.failed THEN M1
       ELSE [M1 EXCEPT !.shared[d] = [live |-> TRUE, data |-> M1.shared[s].data,
                                      m_size |-> M1.shared[s].m_size,
                                      refcount |-> M1.shared[s].refcount]]

\* SharedBuffer::operator=(const SharedBuffer &buffer), d = s.  It is the only
\* assignment operator of the class, so d = std::move(s) runs it as well.
SharedBuffer_assign(M, d, s) ==
  IF d = s THEN M
  ELSE LET M1 == SharedBuffer_drop(M, d) IN
       IF M1.failed THEN M1
       ELSE LET rc == M1.shared[s].refcount
                M2 == [M1 EXCEPT !.shared[d] = [live |-> TRUE, data |-> M1.shared[s].data,
                                                m_size |-> M1.shared[s].m_size, refcount |-> rc]]
            IN IF rc # 0 THEN [M2 EXCEPT !.counters[rc].val = U32Inc(@)] ELSE M2

\* faulty variant: an array and a counter are allocated for size 0 as well
SharedBuffer_span_allocatesEmpty(M, s, t, size) ==
  LET sz == ToUInt(size)
      a == NewArrId(M)
      c == NewCellId(M)
      M1 == NewCell(NewArr(M, ToSizeT(sz), Prefix(t, sz)))
  IN [M1 EXCEPT !.counters[c].val = 1,
                !.shared[s] = [live |-> TRUE, data |-> a, m_size |-> sz, refcount |-> c]]

\* SharedBuffer(const T *t, size_t size); t is the tracked prefix of the span
SharedBuffer_span(M, s, t, size) ==
  LET sz == ToUInt(size) IN
  IF sz # Zero
  THEN LET a == NewArrId(M)
           c == NewCellId(M)
           M1 == NewCell(NewArr(M, ToSizeT(sz), Prefix(t, sz)))
       IN [M1 EXCEPT !.counters[c].val = 1,
                     !.shared[s] = [live |-> TRUE, data |-> a, m_size |-> sz, refcount |-> c]]
  ELSE [M EXCEPT !.shared[s] = [live |-> TRUE, data |-> 0, m_size |-> sz, refcount |-> 0]]

\* what a read through the pointer p sees (operator*)
ElemsAt(M, p) == IF p = 0 THEN <<>> ELSE M.arrays[p].elems

\* SharedBuffer(const Buffer<T> &buffer), constructing s from b
SharedBuffer_fromBuffer(M, s, b) ==
  SharedBuffer_span(M, s, ElemsAt(M, M.buffers[b].data), M.buffers[b].m_size)

\* ~SharedBuffer()
SharedBuffer_dtor(M, s) ==
  LET M1 == SharedBuffer_drop(M, s) IN
  IF M1.failed THEN M1 ELSE [M1 EXCEPT !.shared[s] = NoShared]

\* SharedBuffer::operator[](i) = v
SharedBuffer_write(M, s, i, v) ==
  LET M1 == c_assert(M, IndexLT(i, ToSizeT(M.shared[s].m_size))) IN
  IF M1.failed THEN M1
  ELSE [M1 EXCEPT !.arrays[M1.shared[s].data].elems[i + 1] = v]

\* SharedBuffer::operator[](i), read
SharedBuffer_read(M, s, i) == M.arrays[M.shared[s].data].elems[i + 1]

\* SharedBuffer::getSize()
SharedBuffer_getSize(M, s) == ToSizeT(M.shared[s].m_size)

\* faulty variant: the size is kept with the allocation, so every holder sees it shrink
SharedBuffer_shrinkSize_allHolders(M, s, new_size) ==
  LET M1 == c_assert(M, SizeLE(new_size, ToSizeT(M.shared[s].m_size))) IN
  IF M1.failed THEN M1
  ELSE IF SizeLE(new_size, ToSizeT(M1.shared[s].m_size))
       THEN [M1 EXCEPT !.shared = [t \in SbIds |->
               IF t = s \/ (M1.shared[s].refcount # 0 /\ M1.shared[t].refcount = M1.shared[s].refcount)
               THEN [M1.shared[t] EXCEPT !.m_size = ToUInt(new_size)]
               ELSE M1.shared[t]]]
       ELSE M1

\* faulty variant: the elements cut off are cleared
SharedBuffer_shrinkSize_clearsTail(M, s, new_size) ==
  LET M1 == c_assert(M, SizeLE(new_size, ToSizeT(M.shared[s].m_size))) IN
  IF M1.failed THEN M1
  ELSE IF SizeLE(new_size, ToSizeT(M1.shared[s].m_size))
       THEN LET p == M1.shared[s].data
                M2 == [M1 EXCEPT !.shared[s].m_size = ToUInt(new_size)]
            IN IF p = 0 THEN M2
               ELSE [M2 EXCEPT !.arrays[p].elems =
                       [i \in 1..Len(@) |-> IF i > TrackedLen(new_size) THEN 0 ELSE @[i]]]
       ELSE M1

\* SharedBuffer::shrinkSize(new_size)
SharedBuffer_shrinkSize(M, s, new_size) ==
  LET M1 == c_assert(M, SizeLE(new_size, ToSizeT(M.shared[s].m_size))) IN
  IF M1.failed THEN M1
  ELSE IF SizeLE(new_size, ToSizeT(M1.shared[s].m_size))
       THEN [M1 EXCEPT !.shared[s].m_size = ToUInt(new_size)]
       ELSE M1

\* SharedBuffer::operator Buffer<T>(), constructing b from s
SharedBuffer_toBuffer(M, b, s) ==
  Buffer_span(M, b, ElemsAt(M, M.shared[s].data), ToSizeT(M.shared[s].m_size))

\* SharedBuffer::operator*() hands out the raw pointer data.  A write through it
\* past the end of the array is undefined behaviour; among its outcomes is that
\* the word written is the member m of another object t, which becomes zero.
SharedBuffer_wildWrite(M, t, m) ==
  CASE m = "refcount" -> [M EXCEPT !.shared[t].refcount = 0]
    [] m = "data" -> [M EXCEPT !.shared[t].data = 0]
    [] m = "m_size" -> [M EXCEPT !.shared[t].m_size = Zero]

\* Buffer::operator[](i), read; Buffer::getSize()
Buffer_read(M, b, i) == M.arrays[M.buffers[b].data].elems[i + 1]
Buffer_getSize(M, b) == M.buffers[b].m_size

\* ---- IntrusiveReferenceCounted ----
\* A number of calls is not bounded by a machine word.  It is kept as
\* Count(q, r), the number q * 2^32 + r with r small and of either sign, so that
\* its low 32 bits are the word written r (as -1 is written for 2^32 - 1).
Count(q, r) == [q |-> q, r |-> r]
CountPlus(a, b) == Count(a.q + b.q, a.r + b.r)
CountMinus(a, b) == Count(a.q - b.q, a.r - b.r)
CountPos(a) == a.q > 0 \/ (a.q = 0 /\ a.r > 0)
\* the number a u32 word stands for
U32Val(v) == IF v >= 0 THEN Count(0, v) ELSE Count(1, v)
\* the low 32 bits of a number
U32Of(a) == a.r

NoIrc == [st |-> "none", m_refcount |-> 0, grabs |-> Count(0, 0), drops |-> Count(0, 0),
          deletes |-> 0]

\* IntrusiveReferenceCounted(), u32 m_refcount = 1
Irc_new(R, o) ==
  [R EXCEPT ![o] = [st |-> "live", m_refcount |-> 1, grabs |-> Count(0, 0),
                    drops |-> Count(0, 0), deletes |-> 0]]

\* grab(), called n times in a row: ++m_refcount each time
Irc_grab(R, o, n) ==
  [R EXCEPT ![o].m_refcount = @ + U32Of(n),
            ![o].grabs = CountPlus(@, n)]

\* drop(): if (--m_refcount == 0) delete this
Irc_drop(R, o) ==
  LET R1 == [R EXCEPT ![o].m_refcount = U32Dec(@), ![o].drops = CountPlus(@, Count(0, 1))] IN
  IF R1[o].m_refcount = 0
  THEN [R1 EXCEPT ![o].st = "deleted", ![o].deletes = @ + 1]
  ELSE R1

\* a call through a pointer to a deleted object: the behaviour is undefined
Irc_useAfterDelete(R, o) == [R EXCEPT ![o].st = "undefined"]

\* ---- the program: any sequence of operations on the objects ----
Op(name, x, y) == [op |-> name, x |-> x, y |-> y, freed |-> 0]
\* recorded of a call shrinkSize(n) on an object of size m: 1 when n is above m
Above(n, m) == IF SizeLE(n, m) THEN 0 ELSE 1

Init ==
  /\ buffers = [b \in BufIds |-> NoBuffer]
  /\ shared = [s \in SbIds |-> NoShared]
  /\ arrays = [a \in ArrIds |-> NoArray]
  /\ counters = [c \in CellIds |-> NoCell]
  /\ NDEBUG \in BOOLEAN
  /\ failed = FALSE
  /\ last = Op("init", 0, 0)
  /\ refs = [o \in IrcIds |-> NoIrc]

\* a freed address that no object points to any more is free to be handed out
\* again; what was freed twice stays on record
Reclaim(M) ==
  LET ra == {M.buffers[b].data : b \in BufIds} \cup {M.shared[s].data : s \in SbIds}
      rc == {M.shared[s].refcount : s \in SbIds}
  IN [M EXCEPT !.arrays = [a \in ArrIds |->
                 IF M.arrays[a].st = "freed" /\ M.arrays[a].frees = 1 /\ a \notin ra THEN NoArray ELSE M.arrays[a]],
               !.counters = [c \in CellIds |->
                 IF M.counters[c].st = "freed" /\ M.counters[c].frees = 1 /\ c \notin rc THEN NoCell ELSE M.counters[c]]]

\* the program goes from memory Cur to memory M, having run the operation rec
Step(M, rec) ==
  /\ ~failed
  /\ buffers' = M.buffers
  /\ shared' = M.shared
  /\ arrays' = Reclaim(M).arrays
  /\ counters' = Reclaim(M).counters
  /\ failed' = M.failed
  /\ UNCHANGED <<NDEBUG, refs>>
  /\ last' = [rec EXCEPT !.freed = Cardinality({a \in ArrIds :
                  arrays[a].st = "live" /\ M.arrays[a].st # "live"})]

BLive(b) == buffers[b].live
SLive(s) == shared[s].live
\* an index of the allocation behind p (element access is the caller's to keep in bounds)
InAlloc(p, i) == p # 0 /\ i + 1 <= Len(arrays[p].elems)

BufferDefault(b) ==
  /\ ~BLive(b)
  /\ Step(Buffer_default(Cur, b), Op("Buffer()", b, 0))

BufferSize(b, size, junk) ==
  /\ ~BLive(b)
  /\ size # Zero => CanNewArr(Cur)
  /\ Step(Buffer_size(Cur, b, size, junk), Op("Buffer(size)", b, 0))

BufferSpan(b, t, size) ==
  /\ ~BLive(b)
  /\ size # Zero => CanNewArr(Cur)
  /\ Step(Buffer_span(Cur, b, t, size), Op("Buffer(t,size)", b, 0))

BufferMove(b, s) ==
  /\ ~BLive(b) /\ BLive(s)
  /\ Step(Buffer_move(Cur, b, s), Op("Buffer(&&)", b, s))

BufferDtor(b) ==
  /\ BLive(b)
  /\ Step(Buffer_dtor(Cur, b), Op("~Buffer", b, 0))

BufferMoveAssign(d, s) ==
  /\ BLive(d) /\ BLive(s)
  /\ Step(Buffer_moveAssign(Cur, d, s), Op("Buffer=", d, s))

BufferCopyTo(s, d, junk) ==
  /\ BLive(d) /\ BLive(s)
  /\ buffers[s].m_size # Zero => CanNewArr(Cur)
  /\ d # s => junk = Zeros(buffers[s].m_size)
  /\ Step(Buffer_copyTo(Cur, s, d, junk), Op("copyTo", d, s))

BufferWrite(b, i, v) ==
  /\ BLive(b) /\ InAlloc(buffers[b].data, i)
  /\ Step(Buffer_write(Cur, b, i, v), Op("Buffer[]", b, 0))

BufferShrinkSize(b, n) ==
  /\ BLive(b)
  /\ Step(Buffer_shrinkSize(Cur, b, n), Op("Buffer.shrinkSize", b, Above(n, buffers[b].m_size)))

SharedDefault(s) ==
  /\ ~SLive(s)
  /\ Step(SharedBuffer_default(Cur, s), Op("SharedBuffer()", s, 0))

SharedSize(s, size) ==
  /\ ~SLive(s)
  /\ ToUInt(size) # Zero => (CanNewArr(Cur) /\ CanNewCell(Cur))
  /\ Step(SharedBuffer_size(Cur, s, size), Op("SharedBuffer(size)", s, 0))

SharedSpan(s, t, size) ==
  /\ ~SLive(s)
  /\ ToUInt(size) # Zero => (CanNewArr(Cur) /\ CanNewCell(Cur))
  /\ Step(SharedBuffer_span(Cur, s, t, size), Op("SharedBuffer(t,size)", s, 0))

SharedFromBuffer(s, b) ==
  /\ ~SLive(s) /\ BLive(b)
  /\ ToUInt(buffers[b].m_size) # Zero => (CanNewArr(Cur) /\ CanNewCell(Cur))
  /\ Step(SharedBuffer_fromBuffer(Cur, s, b), Op("SharedBuffer(Buffer)", s, b))

SharedCopy(d, s) ==
  /\ ~SLive(d) /\ SLive(s)
  /\ Step(SharedBuffer_copy(Cur, d, s), Op("SharedBuffer(const&)", d, s))

SharedMove(d, s) ==
  /\ ~SLive(d) /\ SLive(s)
  /\ Step(SharedBuffer_move(Cur, d, s), Op("SharedBuffer(&&)", d, s))

SharedAssign(d, s) ==
  /\ SLive(d) /\ SLive(s)
  /\ Step(SharedBuffer_assign(Cur, d, s), Op("SharedBuffer=", d, s))

SharedDtor(s) ==
  /\ SLive(s)
  /\ Step(SharedBuffer_dtor(Cur, s), Op("~SharedBuffer", s, 0))

SharedWrite(s, i, v) ==
  /\ SLive(s) /\ InAlloc(shared[s].data, i)
  /\ Step(SharedBuffer_write(Cur, s, i, v), Op("SharedBuffer[]", s, 0))

SharedShrinkSize(s, n) ==
  /\ SLive(s)
  /\ Step(SharedBuffer_shrinkSize(Cur, s, n), Op("SharedBuffer.shrinkSize", s, Above(n, ToSizeT(shared[s].m_size))))

\* no stray write has happened yet: every counter counts its holders
Intact ==
  \A c \in CellIds : counters[c].st = "live" =>
    counters[c].val = Cardinality({s \in SbIds : shared[s].live /\ shared[s].refcount = c})

\* the first stray write of a program
SharedWildWrite(s, t, m) ==
  /\ SLive(s) /\ shared[s].data # 0
  /\ SLive(t) /\ t # s
  /\ Intact
  /\ Step(SharedBuffer_wildWrite(Cur, t, m), Op("wild write", s, t))

SharedToBuffer(b, s) ==
  /\ ~BLive(b) /\ SLive(s)
  /\ shared[s].m_size # Zero => CanNewArr(Cur)
  /\ Step(SharedBuffer_toBuffer(Cur, b, s), Op("operator Buffer", b, s))

\* the references to o that are outstanding: the one of its creation and one
\* for every grab(), less one for every drop()
Held(o) == CountMinus(CountPlus(Count(0, 1), refs[o].grabs), refs[o].drops)
\* some holder of a reference to o is there to make a call
IrcCallable(o) == refs[o].st \in {"live", "deleted"} /\ CountPos(Held(o))
\* a long run of grab() calls: three short of 2^32
GrabRun == Count(1, -3)

IrcStep(R) ==
  /\ ~failed
  /\ refs' = R
  /\ UNCHANGED <<buffers, shared, arrays, counters, NDEBUG, failed, last>>

IrcNew(o) ==
  /\ refs[o].st = "none"
  /\ IrcStep(Irc_new(refs, o))

IrcGrab(o) ==
  /\ IrcCallable(o)
  /\ refs[o].grabs.r < MaxGrabs
  /\ IrcStep(IF refs[o].st = "live" THEN Irc_grab(refs, o, Count(0, 1))
             ELSE Irc_useAfterDelete(refs, o))

IrcGrabRun(o) ==
  /\ IrcCallable(o)
  /\ refs[o].grabs = Count(0, 0)
  /\ IrcStep(IF refs[o].st = "live" THEN Irc_grab(refs, o, GrabRun)
             ELSE Irc_useAfterDelete(refs, o))

IrcDrop(o) ==
  /\ IrcCallable(o)
  /\ refs[o].drops.r <= MaxGrabs
  /\ IrcStep(IF refs[o].st = "live" THEN Irc_drop(refs, o)
             ELSE Irc_useAfterDelete(refs, o))

IrcNext ==
  \/ \E o \in IrcIds : IrcNew(o)
  \/ \E o \in IrcIds : IrcGrab(o)
  \/ \E o \in IrcIds : IrcGrabRun(o)
  \/ \E o \in IrcIds : IrcDrop(o)

BufferNext ==
  \/ \E b \in BufIds : BufferDefault(b)
  \/ \E b \in BufIds, size \in SmallSizes : \E junk \in Contents(size) : BufferSize(b, size, junk)
  \/ \E b \in BufIds, size \in SmallSizes : \E t \in Contents(size) : BufferSpan(b, t, size)
  \/ \E b, s \in BufIds : BufferMove(b, s)
  \/ \E b \in BufIds : BufferDtor(b)
  \/ \E d, s \in BufIds : BufferMoveAssign(d, s)
  \/ \E d, s \in BufIds : \E junk \in Contents(buffers[s].m_size) : BufferCopyTo(s, d, junk)
  \/ \E b \in BufIds, i \in Indices, v \in Values : BufferWrite(b, i, v)
  \/ \E b \in BufIds, n \in SmallSizes : BufferShrinkSize(b, n)

SharedNext ==
  \/ \E s \in SbIds : SharedDefault(s)
  \/ \E s \in SbIds, size \in Sizes : SharedSize(s, size)
  \/ \E s \in SbIds, size \in Sizes : \E t \in Contents(size) : SharedSpan(s, t, size)
  \/ \E d, s \in SbIds : SharedCopy(d, s)
  \/ \E d, s \in SbIds : SharedMove(d, s)
  \/ \E d, s \in SbIds : SharedAssign(d, s)
  \/ \E s \in SbIds : SharedDtor(s)
  \/ \E s \in SbIds, i \in Indices, v \in Values : SharedWrite(s, i, v)
  \/ \E s \in SbIds, n \in Sizes : SharedShrinkSize(s, n)

\* conversions between the two classes, of buffers of any size_t size: the
\* Buffer ConvertSrc is made from a span, converted into a SharedBuffer, and
\* that one back into the Buffer ConvertDst
ConvertSrc == {b \in BufIds : b = 1}
ConvertDst == BufIds \ ConvertSrc
ConvertSbIds == {s \in SbIds : s = 1}
ConvertNext ==
  \/ \E b \in ConvertSrc, size \in Sizes : \E t \in Contents(size) : BufferSpan(b, t, size)
  \/ \E b \in ConvertSrc, n \in SmallSizes : BufferShrinkSize(b, n)
  \/ \E b \in BufIds, i \in Indices, v \in Values : BufferWrite(b, i, v)
  \/ \E b \in BufIds : BufferDtor(b)
  \/ \E s \in ConvertSbIds, b \in ConvertSrc : SharedFromBuffer(s, b)
  \/ \E b \in ConvertDst, s \in ConvertSbIds : SharedToBuffer(b, s)
  \/ \E s \in ConvertSbIds, i \in Indices, v \in Values : SharedWrite(s, i, v)
  \/ \E s \in ConvertSbIds : SharedDtor(s)

\* chains of conversions: a Buffer or SharedBuffer is made with a size, and any
\* object is converted into a new object of the other class
ChainSizes == {z \in SmallSizes : z.lo <= 1}
ChainNext ==
  \/ \E b \in BufIds, size \in ChainSizes : \E junk \in Contents(size) : BufferSize(b, size, junk)
  \/ \E s \in SbIds, size \in ChainSizes : SharedSize(s, size)
  \/ \E s \in SbIds, b \in BufIds : SharedFromBuffer(s, b)
  \/ \E b \in BufIds, s \in SbIds : SharedToBuffer(b, s)
  \/ \E b \in BufIds : BufferDtor(b)
  \/ \E s \in SbIds : SharedDtor(s)

\* programs that shrink buffers, by any size_t argument; the buffers alive at
\* one time are of one class
NoBufferLive == \A b \in BufIds : ~BLive(b)
NoSharedLive == \A s \in SbIds : ~SLive(s)
ShrinkNext ==
  \/ \E b \in BufIds, size \in SmallSizes : \E t \in Contents(size) :
       NoSharedLive /\ BufferSpan(b, t, size)
  \/ \E b \in BufIds, n \in Sizes : BufferShrinkSize(b, n)
  \/ \E b \in BufIds : BufferDtor(b)
  \/ \E s \in SbIds, size \in SmallSizes : \E t \in Contents(size) :
       NoBufferLive /\ SharedSpan(s, t, size)
  \/ \E d, s \in SbIds : SharedCopy(d, s)
  \/ \E s \in SbIds, n \in Sizes : SharedShrinkSize(s, n)
  \/ \E s \in SbIds : SharedDtor(s)

\* programs that make, copy, assign and destroy buffers; the buffers alive at
\* one time are of one class
EitherNext ==
  \/ \E b \in BufIds, size \in SmallSizes : \E t \in Contents(size) :
       NoSharedLive /\ BufferSpan(b, t, size)
  \/ \E d, s \in BufIds : BufferMoveAssign(d, s)
  \/ \E b \in BufIds : BufferDtor(b)
  \/ \E s \in SbIds, size \in SmallSizes : \E t \in Contents(size) :
       NoBufferLive /\ SharedSpan(s, t, size)
  \/ \E d, s \in SbIds : SharedCopy(d, s)
  \/ \E d, s \in SbIds : SharedAssign(d, s)
  \/ \E s \in SbIds : SharedDtor(s)

\* programs that copy SharedBuffer objects and in which a write through a raw
\* pointer goes astray
Members == {"data", "m_size", "refcount"}
CorruptNext ==
  \/ \E s \in SbIds, size \in SmallSizes : SharedSize(s, size)
  \/ \E d, s \in SbIds : SharedCopy(d, s)
  \/ \E d, s \in SbIds : SharedAssign(d, s)
  \/ \E s \in SbIds : SharedDtor(s)
  \/ \E s, t \in SbIds, m \in Members : SharedWildWrite(s, t, m)

Next == BufferNext \/ SharedNext \/ ConvertNext \/ IrcNext \/ CorruptNext \/ ChainNext \/ ShrinkNext
          \/ EitherNext

\* any program over both classes
Spec == Init /\ [][Next]_vars
\* programs that use Buffer alone
BufferSpec == Init /\ [][BufferNext]_vars
\* programs that use SharedBuffer alone
SharedSpec == Init /\ [][SharedNext]_vars
\* programs that convert buffers of one class into the other
ConvertSpec == Init /\ [][ConvertNext]_vars

\* programs that convert buffers back and forth, any number of times
ChainSpec == Init /\ [][ChainNext]_vars
\* programs that assign buffers
EitherSpec == Init /\ [][EitherNext]_vars
\* programs that shrink buffers
ShrinkSpec == Init /\ [][ShrinkNext]_vars
\* programs that use SharedBuffer and corrupt an object by a stray write
CorruptSpec == Init /\ [][CorruptNext]_vars
\* programs that use IntrusiveReferenceCounted objects
IrcSpec == Init /\ [][IrcNext]_vars

\* ---- what is checked ----
LiveShared == {s \in SbIds : shared[s].live}
LiveBuffers == {b \in BufIds : buffers[b].live}
\* the live SharedBuffer objects whose refcount points to the cell c
Holders(c) == {s \in LiveShared : shared[s].refcount = c}
\* the live Buffer objects whose data points to the array a
Owners(a) == {b \in LiveBuffers : buffers[b].data = a}
\* the step is the call name on the object x; every action records its call, so
\* this conjunct in front of an action leaves the meaning as it is and spares
\* the evaluation of the action on the steps of other calls
CalledOn(name, x) == last'.op = name /\ last'.x = x
Called(name, x, y) == CalledOn(name, x) /\ last'.y = y

\* C1: every SharedBuffer of size > 0 has a counter, and every live counter cell
\* holds the number of live SharedBuffer objects that point to it.
C1_RefcountCountsHolders ==
  /\ \A s \in LiveShared : shared[s].m_size # Zero => shared[s].refcount # 0
  /\ \A c \in CellIds : counters[c].st = "live" => counters[c].val = Cardinality(Holders(c))

\* two objects hold one allocation after a copy
C1_Witness ==
  /\ last.op \in {"SharedBuffer(const&)", "SharedBuffer="}
  /\ \E c \in CellIds : counters[c].st = "live" /\ Cardinality(Holders(c)) = 2

\* C2: an allocation (array and counter cell) is live exactly as long as some
\* SharedBuffer holds it: nothing a live object points to is freed, nothing is
\* freed twice, no counter goes below zero, and nothing outlives its last holder.
C2_FreedWithLastHolder ==
  /\ \A s \in LiveShared :
       /\ shared[s].refcount # 0 =>
            /\ counters[shared[s].refcount].st = "live"
            /\ counters[shared[s].refcount].val >= 1
            /\ shared[s].data # 0
       /\ shared[s].data # 0 => arrays[shared[s].data].st = "live"
  /\ \A c \in CellIds :
       /\ counters[c].frees <= 1
       /\ counters[c].val >= 0
       /\ counters[c].st = "live" => Holders(c) # {}
  /\ \A a \in ArrIds :
       /\ arrays[a].frees <= 1
       /\ arrays[a].st = "live" => \E s \in LiveShared : shared[s].data = a
  /\ LiveShared = {} =>
       /\ \A a \in ArrIds : arrays[a].st # "live"
       /\ \A c \in CellIds : counters[c].st # "live"

\* the last holder of an allocation has let go of it and the array was freed
C2_Witness ==
  /\ last.op \in {"~SharedBuffer", "SharedBuffer="}
  /\ last.freed = 1
  /\ LiveShared # {}

\* C3: every array that is allocated and not freed is held by exactly one live
\* Buffer, no Buffer holds a freed array, no array is freed twice, and nothing
\* stays allocated once every Buffer is destroyed.
C3_OneOwner ==
  /\ \A a \in ArrIds :
       /\ arrays[a].st = "live" => Cardinality(Owners(a)) = 1
       /\ arrays[a].frees <= 1
  /\ \A b \in LiveBuffers : buffers[b].data # 0 => arrays[buffers[b].data].st = "live"
  /\ LiveBuffers = {} => \A a \in ArrIds : arrays[a].st # "live"

\* an array has changed hands
C3_Witness ==
  /\ last.op \in {"Buffer(&&)", "Buffer="}
  /\ buffers[last.x].data # 0
  /\ buffers[last.y].live /\ buffers[last.y].data = 0

\* C4 as stated: all objects that share one allocation report the same size.
C4_Stated_HoldersAgreeOnSize ==
  \A s, t \in LiveShared :
    (shared[s].refcount # 0 /\ shared[s].refcount = shared[t].refcount)
      => SharedBuffer_getSize(Cur, s) = SharedBuffer_getSize(Cur, t)

\* C4, amended: shrinkSize(newSize) with newSize <= size sets the size of the
\* object it is called on to newSize and leaves every other SharedBuffer object,
\* the other holders of the same allocation included, with the size it had.
C4_ShrinkIsPerObject ==
  [][\A s \in SbIds, n \in Sizes :
       (CalledOn("SharedBuffer.shrinkSize", s) /\ SharedShrinkSize(s, n)) =>
         /\ \A t \in SbIds \ {s} : shared'[t] = shared[t]
         /\ SizeLE(n, SharedBuffer_getSize(Cur, s)) => ToSizeT(shared'[s].m_size) = n
    ]_vars

\* one holder has shrunk, another holder of the same allocation has not
C4_Witness ==
  /\ last.op = "SharedBuffer.shrinkSize"
  /\ \E t \in LiveShared \ {last.x} :
       /\ shared[t].refcount # 0
       /\ shared[t].refcount = shared[last.x].refcount
       /\ shared[t].m_size # shared[last.x].m_size

\* the effect of a move of s into d: d has what s had, s is the empty sentinel,
\* the counter keeps its value
SharedMovedInto(d, s) ==
  /\ shared'[d] = shared[s]
  /\ shared'[s] = [live |-> TRUE, data |-> 0, m_size |-> Zero, refcount |-> 0]
  /\ shared[s].refcount # 0 =>
       counters'[shared[s].refcount].val = counters[shared[s].refcount].val

\* C5 as stated: move construction and assignment from an rvalue both move.
C5_Stated_MoveAndAssignMove ==
  [][\A d, s \in SbIds :
       (d # s /\ (SharedMove(d, s) \/ SharedAssign(d, s))) => SharedMovedInto(d, s)
    ]_vars

\* C5, amended: move construction leaves the destination with the source's
\* size, data and counter, the source as the empty sentinel and the counter
\* value unchanged.  Assignment from an rvalue source into a distinct
\* destination is the copy assignment: the destination gets the source's size,
\* data and counter, the source is left as it was, and the counter counts the
\* destination as one more holder.
C5_MoveCtorMoves_AssignCopies ==
  [][\A d, s \in SbIds :
       /\ (Called("SharedBuffer(&&)", d, s) /\ SharedMove(d, s)) => SharedMovedInto(d, s)
       /\ (d # s /\ Called("SharedBuffer=", d, s) /\ SharedAssign(d, s)) =>
            /\ shared'[d] = shared[s]
            /\ shared'[s] = shared[s]
            /\ shared[s].refcount # 0 =>
                 counters'[shared[s].refcount].val =
                   counters[shared[s].refcount].val
                     + (IF shared[d].refcount = shared[s].refcount THEN 0 ELSE 1)
    ]_vars

\* a non-empty SharedBuffer has been moved into a new object
C5_Witness ==
  /\ last.op = "SharedBuffer(&&)"
  /\ shared[last.x].refcount # 0 /\ shared[last.x].m_size # Zero
  /\ shared[last.y].live /\ shared[last.y].refcount = 0

EmptyBuffer == [live |-> TRUE, data |-> 0, m_size |-> Zero]
\* d is constructed from, or assigned, the rvalue s
BufferMoves(d, s) ==
  /\ d # s
  /\ \/ Called("Buffer(&&)", d, s) /\ BufferMove(d, s)
     \/ Called("Buffer=", d, s) /\ BufferMoveAssign(d, s)
\* the destruction of b neither frees nor changes what the other Buffers hold
DtorSparesOthers(b) ==
  \A d \in LiveBuffers \ {b} :
    /\ buffers'[d] = buffers[d]
    /\ buffers[d].data # 0 => arrays'[buffers[d].data] = arrays[buffers[d].data]

\* C6 as stated: after a move the destination has the source's size and array,
\* contents unchanged, the source is emptied, and destroying the source leaves
\* the destination's array alone.
C6_Stated_MoveTransfersArray ==
  [][/\ \A d, s \in BufIds :
          BufferMoves(d, s) =>
            /\ buffers'[d].m_size = buffers[s].m_size
            /\ buffers'[d].data = buffers[s].data
            /\ buffers[s].data # 0 => arrays'[buffers[s].data] = arrays[buffers[s].data]
            /\ buffers'[s] = EmptyBuffer
     /\ \A b \in BufIds : (CalledOn("~Buffer", b) /\ BufferDtor(b)) => DtorSparesOthers(b)
    ]_vars

\* C6, amended: after a move from a source of size > 0 (a size reduced by
\* shrinkSize to another size > 0 included) the destination has the source's
\* size and array, contents unchanged, and the source is emptied.  After a move
\* from a source of size 0 the destination is empty and the source is left as it
\* was: a source shrunk to size 0 keeps its array.  Destroying the source
\* afterwards neither frees nor changes the destination's array.
C6_MoveTransfersNonEmpty ==
  [][/\ \A d, s \in BufIds :
          BufferMoves(d, s) =>
            /\ buffers'[d].m_size = buffers[s].m_size
            /\ buffers[s].m_size # Zero =>
                 /\ buffers'[d].data = buffers[s].data
                 /\ buffers[s].data # 0
                 /\ arrays'[buffers[s].data] = arrays[buffers[s].data]
                 /\ buffers'[s] = EmptyBuffer
            /\ buffers[s].m_size = Zero =>
                 /\ buffers'[d] = EmptyBuffer
                 /\ buffers'[s] = buffers[s]
                 /\ buffers[s].data # 0 => arrays'[buffers[s].data] = arrays[buffers[s].data]
     /\ \A b \in BufIds : (CalledOn("~Buffer", b) /\ BufferDtor(b)) => DtorSparesOthers(b)
    ]_vars

\* a Buffer shrunk to a smaller size > 0 has been moved
C6_Witness ==
  /\ last.op \in {"Buffer(&&)", "Buffer="}
  /\ last.x # last.y
  /\ buffers[last.x].data # 0
  /\ buffers[last.x].m_size # Zero
  /\ buffers[last.x].m_size # arrays[buffers[last.x].data].len
  /\ buffers[last.y] = EmptyBuffer

\* C7 as stated: the size of a live Buffer is 0 iff its data pointer is null.
C7_Stated_EmptyIffNoData ==
  \A b \in LiveBuffers : buffers[b].m_size = Zero <=> buffers[b].data = 0

\* C7, amended: a live Buffer whose data pointer is null has size 0, and the size
\* never exceeds the length of the array held.  Size 0 with an array still held
\* is what shrinkSize(0) leaves; every other operation leaves each Buffer it
\* changes with size 0 iff its data pointer is null.
C7_NoDataIsEmpty ==
  /\ [](\A b \in LiveBuffers :
          /\ buffers[b].data = 0 => buffers[b].m_size = Zero
          /\ buffers[b].data # 0 => SizeLE(buffers[b].m_size, arrays[buffers[b].data].len))
  /\ [][\A b \in BufIds :
          (last'.op # "Buffer.shrinkSize" /\ buffers'[b] # buffers[b] /\ buffers'[b].live)
            => (buffers'[b].m_size = Zero <=> buffers'[b].data = 0)
       ]_vars

\* a Buffer shrunk to size 0 has been moved: the destination is empty, the
\* source still holds its array
C7_Witness ==
  /\ last.op \in {"Buffer(&&)", "Buffer="}
  /\ last.x # last.y
  /\ buffers[last.x] = EmptyBuffer
  /\ buffers[last.y].live /\ buffers[last.y].m_size = Zero /\ buffers[last.y].data # 0

\* a SharedBuffer of size 0 that holds a counter
ShrunkToZero(r) == r.live /\ r.m_size = Zero /\ r.refcount # 0

\* C8 as stated: a SharedBuffer of size 0 carries no counter and no data.
C8_Stated_SizeZeroIsSentinel ==
  \A s \in LiveShared : shared[s].m_size = Zero => (shared[s].refcount = 0 /\ shared[s].data = 0)

\* C8, amended: a SharedBuffer carries a counter iff it carries data, and one
\* that carries neither has size 0.  A SharedBuffer of size 0 carries a counter
\* (holds a stake) only once shrinkSize(0) was called on it, or once it was
\* copied, moved or assigned from such an object; the constructors from a size,
\* a span or a Buffer of size 0 give the empty sentinel.
C8_NoCounterIsSentinel ==
  /\ [](\A s \in LiveShared :
          /\ shared[s].refcount = 0 <=> shared[s].data = 0
          /\ shared[s].refcount = 0 => shared[s].m_size = Zero)
  /\ [][\A s \in SbIds :
          (ShrunkToZero(shared'[s]) /\ shared'[s] # shared[s]) =>
            \/ last'.op = "SharedBuffer.shrinkSize" /\ last'.x = s
            \/ /\ last'.op \in {"SharedBuffer(const&)", "SharedBuffer(&&)", "SharedBuffer="}
               /\ last'.x = s
               /\ ShrunkToZero(shared[last'.y])
       ]_vars

\* a SharedBuffer shrunk to size 0 has been copied: the copy has size 0 and a stake
C8_Witness ==
  /\ last.op = "SharedBuffer(const&)"
  /\ ShrunkToZero(shared[last.x])
  /\ counters[shared[last.x].refcount].val = 2

\* C9: after a non-empty b is copied into c both point to one array; a write
\* through either is read back through the other; destroying c leaves b, its
\* array and the contents as they were and takes exactly one off the counter.
C9_CopyAliases ==
  [][/\ \A c, b \in SbIds :
          (/\ c # b /\ shared[b].m_size # Zero
           /\ \/ Called("SharedBuffer(const&)", c, b) /\ SharedCopy(c, b)
              \/ Called("SharedBuffer=", c, b) /\ SharedAssign(c, b)) =>
            /\ shared'[c].data = shared'[b].data
            /\ shared'[c].data # 0
            /\ shared'[c].refcount = shared'[b].refcount
     /\ \A c \in SbIds, i \in Indices, v \in Values :
          (CalledOn("SharedBuffer[]", c) /\ SharedWrite(c, i, v) /\ ~failed') =>
            \A b \in LiveShared :
              shared[b].data = shared[c].data => SharedBuffer_read(Cur, b, i)' = v
     /\ \A c \in SbIds :
          (CalledOn("~SharedBuffer", c) /\ SharedDtor(c)) =>
            \A b \in LiveShared \ {c} :
              (shared[c].refcount # 0 /\ shared[b].refcount = shared[c].refcount) =>
                /\ shared'[b] = shared[b]
                /\ arrays'[shared[b].data] = arrays[shared[b].data]
                /\ arrays'[shared[b].data].st = "live"
                /\ counters'[shared[b].refcount].val = counters[shared[b].refcount].val - 1
    ]_vars

\* a value written through one object is read through the other holder
C9_Witness ==
  /\ last.op = "SharedBuffer[]"
  /\ \E b \in LiveShared \ {last.x} :
       /\ shared[b].data = shared[last.x].data
       /\ shared[b].m_size # Zero
       /\ SharedBuffer_read(Cur, b, 0) = 1

\* the object with data pointer p and size n after the step is a duplicate of the
\* n elements at src: same size, equal elements, in an array allocated by the step
DuplicateOf(p, n, src, want) ==
  /\ n = want
  /\ want # Zero =>
       /\ p # 0 /\ p # src
       /\ arrays[p].st # "live" /\ arrays'[p].st = "live"
       /\ arrays'[p].elems = Prefix(arrays[src].elems, want)
       /\ arrays'[src] = arrays[src]
\* a step on the object that holds the array p leaves every other array alone
OtherArraysKept(p) == \A a \in ArrIds \ {p} : arrays'[a] = arrays[a]

\* C10 as stated: Buffer -> SharedBuffer -> Buffer gives at each step an object
\* of the same size with equal elements in an allocation of its own (counter 1),
\* and a later write to or destruction of one object leaves the others alone.
C10_Stated_RoundTripDuplicates ==
  [][/\ \A s \in SbIds, b \in BufIds :
          SharedFromBuffer(s, b) =>
            /\ DuplicateOf(shared'[s].data, SharedBuffer_getSize(Cur, s)',
                           buffers[b].data, Buffer_getSize(Cur, b))
            /\ Buffer_getSize(Cur, b) # Zero =>
                 (shared'[s].refcount # 0 /\ counters'[shared'[s].refcount].val = 1)
            /\ buffers' = buffers
     /\ \A b \in BufIds, s \in SbIds :
          SharedToBuffer(b, s) =>
            /\ DuplicateOf(buffers'[b].data, Buffer_getSize(Cur, b)',
                           shared[s].data, SharedBuffer_getSize(Cur, s))
            /\ shared' = shared /\ counters' = counters
     /\ \A b \in BufIds, i \in Indices, v \in Values :
          BufferWrite(b, i, v) => (OtherArraysKept(buffers[b].data) /\ shared' = shared)
     /\ \A b \in BufIds :
          BufferDtor(b) => (OtherArraysKept(buffers[b].data) /\ shared' = shared)
     /\ \A s \in SbIds, i \in Indices, v \in Values :
          SharedWrite(s, i, v) => (OtherArraysKept(shared[s].data) /\ buffers' = buffers)
     /\ \A s \in SbIds :
          SharedDtor(s) => (OtherArraysKept(shared[s].data) /\ buffers' = buffers)
    ]_vars

\* an IntrusiveReferenceCounted object that was created
IrcMade == {o \in IrcIds : refs[o].st # "none"}

\* C11: an object is deleted exactly once, at the drop() that makes the number of
\* drops equal to the number of grabs plus one, and at no earlier drop; with as
\* many drops as grabs it is alive.
C11_Stated_DeletedAtLastDrop ==
  \A o \in IrcMade :
    /\ refs[o].deletes <= 1
    /\ refs[o].st = "deleted" <=> refs[o].deletes = 1
    /\ refs[o].st = "deleted" <=> refs[o].drops = CountPlus(refs[o].grabs, Count(0, 1))
    /\ refs[o].drops = refs[o].grabs => refs[o].st = "live"

\* a SharedBuffer in a corrupted state: not empty, and no counter
Corrupted(r) == r.live /\ r.refcount = 0 /\ (r.m_size # Zero \/ r.data # 0)

\* C12: with assertions enabled, copy construction and copy assignment from a
\* source that is not empty and has no counter end in an assertion failure.
C12_Stated_CopyChecksSource ==
  [][\A d, s \in SbIds :
       (d # s /\ ~NDEBUG /\ Corrupted(shared[s]) /\ (SharedCopy(d, s) \/ SharedAssign(d, s)))
         => failed'
    ]_vars

\* the SharedBuffer s made by a constructor called with size n has that size, and
\* holds an array and a counter of value 1 iff n is not 0
SharedMadeWithSize(s, n) ==
  /\ SharedBuffer_getSize(Cur, s)' = n
  /\ n # Zero <=> shared'[s].data # 0
  /\ n # Zero <=> shared'[s].refcount # 0
  /\ n # Zero => counters'[shared'[s].refcount].val = 1
\* the same of the Buffer b
BufferMadeWithSize(b, n) ==
  /\ Buffer_getSize(Cur, b)' = n
  /\ n # Zero <=> buffers'[b].data # 0

\* C13: Buffer(n), Buffer(t, n), SharedBuffer(n) and SharedBuffer(t, n) give, for
\* every size_t n, an object of size n that holds an allocation (SharedBuffer: and
\* a counter of value 1) iff n is not 0.
C13_Stated_SizeIsRequestedSize ==
  [][/\ \A s \in SbIds, n \in Sizes :
          SharedSize(s, n) => SharedMadeWithSize(s, n)
     /\ \A s \in SbIds, n \in Sizes : \A t \in Contents(n) :
          SharedSpan(s, t, n) => SharedMadeWithSize(s, n)
     /\ \A b \in BufIds, n \in Sizes : \A t \in Contents(n) :
          (BufferSize(b, n, t) \/ BufferSpan(b, t, n)) => BufferMadeWithSize(b, n)
    ]_vars

EmptyShared == [live |-> TRUE, data |-> 0, m_size |-> Zero, refcount |-> 0]
\* the step allocates nothing
NothingAllocated == arrays' = arrays /\ counters' = counters

\* C14: Buffer(0) and SharedBuffer(0) are in the empty state (size 0, no data, no
\* counter) and allocate nothing, and so does every conversion of an object in
\* the empty state into the other class: a chain of conversions that starts
\* from Buffer(0) or SharedBuffer(0) stays in the empty state, however long.
C14_EmptyStaysEmpty ==
  [][/\ \A b \in BufIds : \A junk \in Contents(Zero) :
          BufferSize(b, Zero, junk) => (buffers'[b] = EmptyBuffer /\ NothingAllocated)
     /\ \A s \in SbIds :
          SharedSize(s, Zero) => (shared'[s] = EmptyShared /\ NothingAllocated)
     /\ \A s \in SbIds, b \in BufIds :
          (SharedFromBuffer(s, b) /\ buffers[b] = EmptyBuffer)
            => (shared'[s] = EmptyShared /\ NothingAllocated)
     /\ \A b \in BufIds, s \in SbIds :
          (SharedToBuffer(b, s) /\ shared[s] = EmptyShared)
            => (buffers'[b] = EmptyBuffer /\ NothingAllocated)
    ]_vars

\* both Buffers and both SharedBuffers are alive and empty, the last of them made
\* by a conversion, and nothing was ever allocated
C14_Witness ==
  /\ last.op \in {"SharedBuffer(Buffer)", "operator Buffer"}
  /\ \A b \in BufIds : buffers[b] = EmptyBuffer
  /\ \A s \in SbIds : shared[s] = EmptyShared
  /\ \A a \in ArrIds : arrays[a] = NoArray
  /\ \A c \in CellIds : counters[c] = NoCell

\* C15: for distinct Buffers src and dst, src.copyTo(dst) frees the array dst
\* held, once; dst then has the size of src and, if that size is not 0, an array
\* allocated by the call, not the one of src, that holds the elements of src, and
\* no array if the size is 0; src, its array and its elements are as before.
C15_CopyToDuplicates ==
  [][\A src, dst \in BufIds :
       (/\ src # dst /\ Called("copyTo", dst, src)
        /\ BufferCopyTo(src, dst, Zeros(buffers[src].m_size))) =>
         LET old == buffers[dst].data
             new == buffers'[dst].data
             n == buffers[src].m_size
         IN /\ old # 0 => (arrays[old].st = "live" /\ arrays'[old] = NoArray)
            /\ last'.freed = (IF old # 0 THEN 1 ELSE 0)
            /\ Buffer_getSize(Cur, dst)' = n
            /\ n = Zero => new = 0
            /\ n # Zero =>
                 /\ new # 0 /\ new # buffers[src].data
                 /\ arrays[new].st # "live" /\ arrays'[new].st = "live"
                 /\ arrays'[new].len = n
                 /\ arrays'[new].elems = Prefix(arrays[buffers[src].data].elems, n)
            /\ buffers'[src] = buffers[src]
            /\ buffers[src].data # 0 => arrays'[buffers[src].data] = arrays[buffers[src].data]
    ]_vars

\* a Buffer that held an array has been made the duplicate of another, which
\* holds the values 1, 0
C15_Witness ==
  /\ last.op = "copyTo" /\ last.x # last.y
  /\ last.freed = 1
  /\ buffers[last.x].data # 0 /\ buffers[last.x].data # buffers[last.y].data
  /\ arrays[buffers[last.x].data].elems = <<1, 0>>
  /\ arrays[buffers[last.y].data].elems = <<1, 0>>

\* C16: shrinkSize(newSize) with newSize above the size of the object is
\* rejected: with assertions enabled an assertion fails; with assertions compiled
\* out the call returns and the object's size, data pointer and counter pointer,
\* every array and every counter are as before.
C16_ShrinkAboveSizeRejected ==
  [][/\ \A b \in BufIds, n \in Sizes :
          (/\ CalledOn("Buffer.shrinkSize", b) /\ ~SizeLE(n, Buffer_getSize(Cur, b))
           /\ BufferShrinkSize(b, n)) =>
            IF NDEBUG
            THEN ~failed' /\ buffers' = buffers /\ arrays' = arrays
            ELSE failed'
     /\ \A s \in SbIds, n \in Sizes :
          (/\ CalledOn("SharedBuffer.shrinkSize", s) /\ ~SizeLE(n, SharedBuffer_getSize(Cur, s))
           /\ SharedShrinkSize(s, n)) =>
            IF NDEBUG
            THEN ~failed' /\ shared' = shared /\ arrays' = arrays /\ counters' = counters
            ELSE failed'
    ]_vars

\* with assertions compiled out, a SharedBuffer of size > 0 was asked to shrink
\* to more than its size
C16_Witness ==
  /\ NDEBUG /\ ~failed
  /\ last.op = "SharedBuffer.shrinkSize"
  /\ last.y = 1
  /\ shared[last.x].m_size # Zero

\* C17: shrinkSize(newSize) with newSize at most the size of the object sets the
\* size of that object to newSize and changes nothing else: no array and no
\* counter is allocated, freed or written (the elements cut off included), the
\* data and counter pointers and every other object are as before.
C17_ShrinkChangesSizeOnly ==
  [][/\ \A b \in BufIds, n \in Sizes :
          (/\ CalledOn("Buffer.shrinkSize", b) /\ SizeLE(n, Buffer_getSize(Cur, b))
           /\ BufferShrinkSize(b, n)) =>
            /\ buffers' = [buffers EXCEPT ![b].m_size = n]
            /\ arrays' = arrays /\ shared' = shared /\ counters' = counters
            /\ ~failed'
     /\ \A s \in SbIds, n \in Sizes :
          (/\ CalledOn("SharedBuffer.shrinkSize", s) /\ SizeLE(n, SharedBuffer_getSize(Cur, s))
           /\ SharedShrinkSize(s, n)) =>
            /\ shared' = [shared EXCEPT ![s].m_size = n]
            /\ arrays' = arrays /\ buffers' = buffers /\ counters' = counters
            /\ ~failed'
    ]_vars

\* one of two holders of the array 1, 1 was shrunk to one element; the element
\* cut off is still 1 and the counter still 2
C17_Witness ==
  /\ last.op = "SharedBuffer.shrinkSize"
  /\ shared[last.x].m_size = Size(0, 1) /\ last.y = 0
  /\ shared[last.x].data # 0
  /\ arrays[shared[last.x].data].elems = <<1, 1>>
  /\ counters[shared[last.x].refcount].val = 2

\* C18: the assignment of a Buffer (move assignment) or of a SharedBuffer (copy
\* assignment) to itself changes nothing: the object's size and data pointer,
\* every array, its elements, and every counter are as before, nothing is
\* allocated or freed and no assertion fails.
C18_SelfAssignIsNoOp ==
  [][/\ \A b \in BufIds :
          BufferMoveAssign(b, b) => (buffers' = buffers /\ arrays' = arrays /\ ~failed')
     /\ \A s \in SbIds :
          SharedAssign(s, s) =>
            (shared' = shared /\ arrays' = arrays /\ counters' = counters /\ ~failed')
    ]_vars

\* the only holder of an array was assigned to itself
C18_Witness ==
  /\ last.op = "SharedBuffer=" /\ last.x = last.y
  /\ shared[last.x].refcount # 0
  /\ counters[shared[last.x].refcount].val = 1
  /\ arrays[shared[last.x].data].st = "live"
  /\ arrays[shared[last.x].data].elems = <<1, 0>>

\* C19: b.copyTo(b) preserves b: afterwards b has the size it had and, element
\* for element, the contents it had.
C19_Stated_SelfCopyPreserves ==
  [][\A b \in BufIds : \A junk \in Contents(buffers[b].m_size) :
       BufferCopyTo(b, b, junk) =>
         /\ Buffer_getSize(Cur, b)' = Buffer_getSize(Cur, b)
         /\ Buffer_getSize(Cur, b) # Zero =>
              /\ buffers'[b].data # 0
              /\ arrays'[buffers'[b].data].st = "live"
              /\ \A i \in Indices :
                   IndexLT(i, Buffer_getSize(Cur, b)) => Buffer_read(Cur, b, i)' = Buffer_read(Cur, b, i)
    ]_vars

\* C20: while an object is alive its counter is the number 1 + grabs - drops,
\* whatever the number of grabs, and no drop() deletes the object while more
\* than one reference is outstanding.
C20_Stated_CounterNeverWraps ==
  /\ [](\A o \in IrcMade : refs[o].st = "live" => U32Val(refs[o].m_refcount) = Held(o))
  /\ [][\A o \in IrcIds :
          (IrcDrop(o) /\ refs'[o].deletes > refs[o].deletes) => Held(o) = Count(0, 1)
       ]_vars

====
